---- MODULE Spec2Model ----
(***************************************************************************)
(* The admin dashboard page of frontend/src/app/admin/page.tsx: an async   *)
(* server component that fetches {API_BASE_URL}/api/admin/all-data with    *)
(* cache: 'no-store', throws on a non-ok response, parses the body and     *)
(* maps every registration record to a card, decoding the record's         *)
(* members string with JSON.parse.                                         *)
(*                                                                         *)
(* Strings are TLA+ strings; a JSON text is the sequence of its lexemes.   *)
(* The module's character set is ASCII: EnDash and Bullet stand for the    *)
(* characters U+2013 and U+2022 of the source.                             *)
(***************************************************************************)
EXTENDS Integers, Sequences, FiniteSets, TLC

\* ------------------------------------------------------------------ bounds
MaxRecords == 2
MaxMembers == 2
MaxUsers == 1
NumRenders == 2

\* The element of a singleton set. The({F(x) : x \in {v}}) is F(v) with v
\* evaluated once, as a const binding of the source is.
The(S) == CHOOSE y \in S : TRUE

\* ------------------------------------------------------- JSON (JSON.parse)
\* A lexeme of a JSON text.
Punct(t) == [type |-> "punct", text |-> t]
Str(t) == [type |-> "string", text |-> t]
NullLit == [type |-> "literal", text |-> "null"]

\* A parsed JSON value. An object keeps its property names in keys and the
\* property values, in the same order, in items; an array keeps its elements
\* in items.
JString(t) == [kind |-> "string", text |-> t, keys |-> <<>>, items |-> <<>>]
JNull == [kind |-> "null", text |-> "", keys |-> <<>>, items |-> <<>>]
JArray(vs) == [kind |-> "array", text |-> "", keys |-> <<>>, items |-> vs]
JObject(ks, vs) == [kind |-> "object", text |-> "", keys |-> ks, items |-> vs]

ParseFail == [ok |-> FALSE, val |-> JNull, next |-> 0]
ParseOk(v, n) == [ok |-> TRUE, val |-> v, next |-> n]

IsPunct(s, i, t) == i <= Len(s) /\ s[i] = Punct(t)

RECURSIVE ParseValue(_, _), ParseElements(_, _, _), ParseProps(_, _, _, _)
\* The value that starts at lexeme i of s, and the index after it.
ParseValue(s, i) ==
    IF i > Len(s) THEN ParseFail
    ELSE IF s[i].type = "string" THEN ParseOk(JString(s[i].text), i + 1)
    ELSE IF s[i] = NullLit THEN ParseOk(JNull, i + 1)
    ELSE IF s[i] = Punct("[") THEN
        IF IsPunct(s, i + 1, "]") THEN ParseOk(JArray(<<>>), i + 2)
        ELSE ParseElements(s, i + 1, <<>>)
    ELSE IF s[i] = Punct("{") THEN
        IF IsPunct(s, i + 1, "}") THEN ParseOk(JObject(<<>>, <<>>), i + 2)
        ELSE ParseProps(s, i + 1, <<>>, <<>>)
    ELSE ParseFail

\* The elements of an array from lexeme i on, acc being those already read.
ParseElements(s, i, acc) ==
    LET After(r) ==
            IF ~r.ok THEN ParseFail
            ELSE IF IsPunct(s, r.next, ",")
                 THEN ParseElements(s, r.next + 1, Append(acc, r.val))
            ELSE IF IsPunct(s, r.next, "]")
                 THEN ParseOk(JArray(Append(acc, r.val)), r.next + 1)
            ELSE ParseFail
    IN The({After(r) : r \in {ParseValue(s, i)}})

\* The properties of an object from lexeme i on, ks and vs being the names
\* and values already read.
ParseProps(s, i, ks, vs) ==
    LET After(r) ==
            IF ~r.ok THEN ParseFail
            ELSE IF IsPunct(s, r.next, ",")
                 THEN ParseProps(s, r.next + 1, Append(ks, s[i].text), Append(vs, r.val))
            ELSE IF IsPunct(s, r.next, "}")
                 THEN ParseOk(JObject(Append(ks, s[i].text), Append(vs, r.val)), r.next + 1)
            ELSE ParseFail
    IN IF ~(i <= Len(s) /\ s[i].type = "string" /\ IsPunct(s, i + 1, ":")) THEN ParseFail
       ELSE The({After(r) : r \in {ParseValue(s, i + 2)}})

\* JSON.parse(s): the value when s is exactly one JSON value, else a
\* SyntaxError (ok = FALSE).
JSONParse(s) ==
    LET Whole(r) == IF r.ok /\ r.next = Len(s) + 1 THEN r ELSE ParseFail
    IN The({Whole(r) : r \in {ParseValue(s, 1)}})

\* v[key] of JavaScript on a parsed value: the value of the last property of
\* that name of an object; has = FALSE stands for undefined.
RECURSIVE LastIndex(_, _, _)
LastIndex(ks, key, i) ==
    IF i = 0 THEN 0 ELSE IF ks[i] = key THEN i ELSE LastIndex(ks, key, i - 1)

GetProp(v, key) ==
    LET At(i) == IF i = 0 THEN [has |-> FALSE, val |-> JNull]
                 ELSE [has |-> TRUE, val |-> v.items[i]]
    IN The({At(i) : i \in {IF v.kind = "object" THEN LastIndex(v.keys, key, Len(v.keys)) ELSE 0}})

\* The characters U+2013 and U+2022 of the markup.
EnDash == "-"
Bullet == "*"

\* -------------------------------------------------------------- rendering
\* A JavaScript value as a React text child: a string is its text, undefined
\* and null render nothing. (Property values of the inputs enumerated below
\* are strings or absent.)
ChildText(p) == IF p.has /\ p.val.kind = "string" THEN p.val.text ELSE ""

\* <li key={index}>{m.name} ({m.designation}) - {m.email}</li>
MemberItemAllFields(m, index) ==
    LET Item(v) ==
            [key |-> index,
             text |-> ChildText(GetProp(v, "name")) \o " (" \o ChildText(GetProp(v, "designation"))
                      \o ") " \o EnDash \o " " \o ChildText(GetProp(v, "email"))
                      \o " " \o ChildText(GetProp(v, "department"))]
    IN The({Item(v) : v \in {m}})

MemberItem(m, index) ==
    LET Item(v) ==
            [key |-> index,
             text |-> ChildText(GetProp(v, "name")) \o " (" \o ChildText(GetProp(v, "designation"))
                      \o ") " \o EnDash \o " " \o ChildText(GetProp(v, "email"))]
    IN The({Item(v) : v \in {m}})

Threw(e) == [threw |-> TRUE, err |-> e, val |-> <<>>]
Returned(v) == [threw |-> FALSE, err |-> "", val |-> <<v>>]

\* const members: TeamMember[] = JSON.parse(item.members), then
\* members.map((m, index) => <li ...>): the list items, or the error thrown.
\* JSON.parse throws a SyntaxError; .map of a value that is no array, and
\* m.name of a null element, throw a TypeError.
MemberList(item) ==
    LET Map(p) ==
            IF ~p.ok THEN Threw("SyntaxError")
            ELSE IF p.val.kind # "array" THEN Threw("TypeError")
            ELSE IF \E i \in 1..Len(p.val.items) : p.val.items[i].kind = "null"
                 THEN Threw("TypeError")
            ELSE Returned([i \in 1..Len(p.val.items) |-> MemberItem(p.val.items[i], i - 1)])
    IN The({Map(p) : p \in {JSONParse(item.members)}})

Anchor(href, label) == [href |-> href, label |-> label, target |-> "_blank"]

\* The four <a> elements of a card, in document order.
LinksSwapped(item) ==
    << Anchor(item.bonafide_file, "PPT"), Anchor(item.ppt_file, "Bonafide"),
       Anchor(item.github_repo_link, "GitHub"), Anchor(item.demo_video_url, "Demo") >>

Links(item) ==
    << Anchor(item.ppt_file, "PPT"), Anchor(item.bonafide_file, "Bonafide"),
       Anchor(item.github_repo_link, "GitHub"), Anchor(item.demo_video_url, "Demo") >>

\* The body of the callback of data.hackathon_registration.map: the card of
\* one record, or the error thrown while building it.
Card(item) ==
    LET Div(ms) ==
            IF ms.threw THEN Threw(ms.err)
            ELSE Returned(
                [key |-> item.id,
                 title |-> item.project_title,
                 subtitle |-> item.registration_id \o " " \o Bullet \o " " \o item.problem_domain,
                 team |-> "Team: " \o item.team_name,
                 size |-> "Size: " \o ToString(item.team_size),
                 institution |-> "Institution: " \o item.institution_name,
                 submitted |-> "Submitted: " \o item.submitted_at,
                 members |-> ms.val[1],
                 links |-> Links(item)])
    IN The({Div(ms) : ms \in {MemberList(item)}})

\* <h1>Admin Dashboard ({data.totalUsers})</h1>
HeaderFromLength(d) == "Admin Dashboard (" \o ToString(Len(d.hackathon_registration)) \o ")"

Header(d) == "Admin Dashboard (" \o ToString(d.totalUsers) \o ")"

\* data.hackathon_registration.map(...): the cards in the order of the
\* records; the first record whose callback throws aborts the map.
\* cs[i] is the outcome of the callback on record i.
RECURSIVE FirstThrow(_, _)
FirstThrow(cs, i) ==
    IF i > Len(cs) THEN 0 ELSE IF cs[i].threw THEN i ELSE FirstThrow(cs, i + 1)

Outcomes(rs) == [i \in 1..Len(rs) |-> Card(rs[i])]

Collect(cs) ==
    LET Upto(t) == IF t # 0 THEN Threw(cs[t].err)
                   ELSE Returned([i \in 1..Len(cs) |-> cs[i].val[1]])
    IN The({Upto(t) : t \in {FirstThrow(cs, 1)}})

CardsSkipMalformed(rs) ==
    The({Collect(SelectSeq(cs, LAMBDA c : ~c.threw)) : cs \in {Outcomes(rs)}})

CardsReversed(rs) ==
    The({Collect([i \in 1..Len(cs) |-> cs[Len(cs) + 1 - i]]) : cs \in {Outcomes(rs)}})

CardsKeyedByIndex(rs) ==
    LET Rekey(cs) == [i \in 1..Len(cs) |-> IF cs[i].threw THEN cs[i]
                                          ELSE Returned([cs[i].val[1] EXCEPT !.key = i])]
    IN The({Collect(Rekey(cs)) : cs \in {Outcomes(rs)}})

CardsDeduplicated(rs) ==
    LET First(id) == CHOOSE x \in {rs[j] : j \in 1..Len(rs)} : x.id = id
    IN The({Collect(cs) : cs \in {Outcomes(SelectSeq(rs, LAMBDA x : x = First(x.id)))}})

Cards(rs) == The({Collect(cs) : cs \in {Outcomes(rs)}})

\* The return statement of Page: the dashboard element, or the error thrown
\* while evaluating it.
Dashboard(d) ==
    LET Root(cs) == IF cs.threw THEN Threw(cs.err)
                    ELSE Returned([header |-> Header(d), cards |-> cs.val[1]])
    IN The({Root(cs) : cs \in {Cards(d.hackathon_registration)}})

\* ----------------------------------------------------------------- inputs
\* What the backend may hold. JSON.stringify of a TeamMember and of a
\* TeamMember[] give the members strings the backend stores.
StringifyMember(m) ==
    << Punct("{"), Str("name"), Punct(":"), Str(m.name), Punct(","),
       Str("designation"), Punct(":"), Str(m.designation), Punct(","),
       Str("department"), Punct(":"), Str(m.department), Punct(","),
       Str("city"), Punct(":"), Str(m.city), Punct(","),
       Str("state"), Punct(":"), Str(m.state), Punct(","),
       Str("mobile"), Punct(":"), Str(m.mobile), Punct(","),
       Str("email"), Punct(":"), Str(m.email), Punct("}") >>

RECURSIVE JoinMembers(_)
JoinMembers(ms) ==
    IF Len(ms) = 0 THEN <<>>
    ELSE IF Len(ms) = 1 THEN StringifyMember(ms[1])
    ELSE StringifyMember(ms[1]) \o <<Punct(",")>> \o JoinMembers(Tail(ms))

StringifyMembers(ms) == <<Punct("[")>> \o JoinMembers(ms) \o <<Punct("]")>>

Asha == [name |-> "Asha", designation |-> "Lead", department |-> "CS", city |-> "Pune",
         state |-> "MH", mobile |-> "9999999999", email |-> "asha@example.com"]
Ravi == [name |-> "Ravi", designation |-> "Developer", department |-> "IT", city |-> "Chennai",
         state |-> "TN", mobile |-> "8888888888", email |-> "ravi@example.com"]
MemberPool == {Asha, Ravi}

SeqsUpTo(S, n) == UNION {[1..k -> S] : k \in 0..n}

\* Members strings that are the serialization of a TeamMember[].
TeamStrings == {StringifyMembers(ms) : ms \in SeqsUpTo(MemberPool, MaxMembers)}

DropLast(s) == SubSeq(s, 1, Len(s) - 1)

\* Members strings that are no serialization of a TeamMember[]: the empty
\* string, a truncated text, a trailing comma, null, [null], a bare object,
\* an array of a string and an array of an object that lacks properties.
OddStrings ==
    { <<>>,
      DropLast(StringifyMembers(<<Asha>>)),
      DropLast(StringifyMembers(<<Asha>>)) \o <<Punct(","), Punct("]")>>,
      <<NullLit>>,
      <<Punct("["), NullLit, Punct("]")>>,
      StringifyMember(Asha),
      <<Punct("["), Str("Asha"), Punct("]")>>,
      <<Punct("["), Punct("{"), Str("name"), Punct(":"), Str("Asha"), Punct("}"), Punct("]")>> }

LinkFields == {"ppt_file", "bonafide_file", "github_repo_link", "demo_video_url"}
LinkPool == {"", "https://files.example/a", "/uploads/b"}
LinkChoices == [LinkFields -> LinkPool]
SomeLinks == [ppt_file |-> "/uploads/b", bonafide_file |-> "https://files.example/a",
              github_repo_link |-> "", demo_video_url |-> "https://files.example/a"]

Ids == {1, 2}

\* A hackathon_registration record.
Registration(id, members, links) ==
    [id |-> id,
     registration_id |-> "REG-" \o ToString(id),
     project_title |-> "Project " \o ToString(id),
     team_name |-> "Team " \o ToString(id),
     team_size |-> id,
     institution_name |-> "Institute",
     problem_domain |-> "Health",
     agree_to_rules |-> TRUE,
     bonafide_file |-> links.bonafide_file,
     ppt_file |-> links.ppt_file,
     demo_video_url |-> links.demo_video_url,
     github_repo_link |-> links.github_repo_link,
     members |-> members,
     submitted_at |-> "2025-01-0" \o ToString(id),
     user_id |-> id]

ApiResponse(rs, n) == [hackathon_registration |-> rs, totalUsers |-> n]

\* Listings of up to MaxRecords records; the same id may occur twice.
ListStrings ==
    { StringifyMembers(<<>>), StringifyMembers(<<Asha>>),
      DropLast(StringifyMembers(<<Asha>>)), <<NullLit>> }
ListRecords == {Registration(id, ms, SomeLinks) : id \in Ids, ms \in ListStrings}
ListSnapshots ==
    {ApiResponse(rs, n) : rs \in SeqsUpTo(ListRecords, MaxRecords), n \in 0..MaxUsers}

\* Listings of one record, over every members string and every choice of links.
CardRecords ==
    {Registration(1, ms, l) : ms \in TeamStrings \cup OddStrings, l \in LinkChoices}
CardSnapshots == {ApiResponse(<<r>>, n) : r \in CardRecords, n \in 0..MaxUsers}

Snapshots == ListSnapshots \cup CardSnapshots

\* The states the backend moves between while several views render.
BackendVersions ==
    { ApiResponse(<<Registration(1, StringifyMembers(<<Asha>>), SomeLinks)>>, 1),
      ApiResponse(<<Registration(1, StringifyMembers(<<Asha>>), SomeLinks),
                    Registration(2, StringifyMembers(<<Ravi, Asha>>), SomeLinks)>>, 1),
      ApiResponse(<<Registration(2, DropLast(StringifyMembers(<<Ravi>>)), SomeLinks)>>, 1) }

\* ------------------------------------------------------------------ state
VARIABLES
    backend,    \* the snapshot the backend would serve now
    cache,      \* the fetch response cache of the framework: <<>> or <<response>>
    pc,         \* pc[r]: where render r of Page is
    res,        \* res[r]: <<>> or <<the Response of its fetch>>
    data,       \* data[r]: <<>> or <<the ApiResponse of res.json()>>
    out,        \* out[r]: <<>> or <<the element Page returned>>
    err,        \* err[r]: the error Page threw, "" when none
    requests,   \* requests[r]: the requests r sent to the endpoint
    served      \* served[r]: <<>> or <<the backend state when r's fetch resolved>>

vars == <<backend, cache, pc, res, data, out, err, requests, served>>

\* The calls of Page. One that is "idle" is never made.
Renders == 1..NumRenders

\* fetch(url, { cache: 'no-store' })
CacheModeForceCache == "force-cache"

CacheMode == "no-store"

\* A fetch is answered from the cache when caching is on and the cache holds
\* a response.
CacheHit(mode, c) == mode # "no-store" /\ c # <<>>

Statuses == {200, 404, 500}
\* Response.ok
ResOk(status) == status \in 200..299

\* What the endpoint answers: a status and a body. json tells whether the
\* body is the JSON text of an ApiResponse; res.json() rejects when it is not.
Response(status, json, snapshot) ==
    [status |-> status, ok |-> ResOk(status), json |-> json,
     body |-> IF json THEN snapshot ELSE ApiResponse(<<>>, 0)]

\* Page from the resolution of fetch to its next await.
AfterFetchIgnoreStatus(response) == [pc |-> "awaitJson", err |-> ""]

AfterFetchRetry(response) ==
    IF ~response.ok THEN [pc |-> "start", err |-> ""]
    ELSE [pc |-> "awaitJson", err |-> ""]

AfterFetch(response) ==
    IF ~response.ok THEN [pc |-> "failed", err |-> "Failed to fetch admin data"]
    ELSE [pc |-> "awaitJson", err |-> ""]

InitRenders(called) ==
    /\ cache = <<>>
    /\ pc = [r \in Renders |-> IF r \in called THEN "start" ELSE "idle"]
    /\ res = [r \in Renders |-> <<>>]
    /\ data = [r \in Renders |-> <<>>]
    /\ out = [r \in Renders |-> <<>>]
    /\ err = [r \in Renders |-> ""]
    /\ requests = [r \in Renders |-> 0]
    /\ served = [r \in Renders |-> <<>>]

\* One view of the page, against any backend state.
Init == backend \in Snapshots /\ InitRenders({1})

\* NumRenders views of the page, against a backend that changes.
InitConc == backend \in BackendVersions /\ InitRenders(Renders)

\* Page is called: it calls fetch and awaits it.
Fetch(r) ==
    /\ pc[r] = "start"
    /\ pc' = [pc EXCEPT ![r] = "awaitFetch"]
    /\ requests' = [requests EXCEPT ![r] = @ + (IF CacheHit(CacheMode, cache) THEN 0 ELSE 1)]
    /\ UNCHANGED <<backend, cache, res, data, out, err, served>>

\* The fetch resolves with a Response; Page checks res.ok, throws or calls
\* res.json() and awaits it.
FetchResolve(r) ==
    /\ pc[r] = "awaitFetch"
    /\ \E status \in Statuses, json \in BOOLEAN :
          LET origin == Response(status, json, backend)
              hit == CacheHit(CacheMode, cache)
              response == IF hit THEN cache[1] ELSE origin
              next == AfterFetch(response)
          IN /\ cache' = IF CacheMode = "no-store" \/ hit THEN cache ELSE <<origin>>
             /\ res' = [res EXCEPT ![r] = <<response>>]
             /\ served' = [served EXCEPT ![r] = <<backend>>]
             /\ pc' = [pc EXCEPT ![r] = next.pc]
             /\ err' = [err EXCEPT ![r] = next.err]
    /\ UNCHANGED <<backend, data, out, requests>>

\* The fetch rejects (no response at all): the await throws.
FetchReject(r) ==
    /\ pc[r] = "awaitFetch"
    /\ pc' = [pc EXCEPT ![r] = "failed"]
    /\ err' = [err EXCEPT ![r] = "TypeError"]
    /\ UNCHANGED <<backend, cache, res, data, out, requests, served>>

\* res.json() resolves; Page evaluates its return statement.
JsonResolve(r) ==
    /\ pc[r] = "awaitJson"
    /\ res[r][1].json
    /\ \E e \in {Dashboard(res[r][1].body)} :
          /\ data' = [data EXCEPT ![r] = <<res[r][1].body>>]
          /\ pc' = [pc EXCEPT ![r] = IF e.threw THEN "failed" ELSE "rendered"]
          /\ err' = [err EXCEPT ![r] = e.err]
          /\ out' = [out EXCEPT ![r] = e.val]
    /\ UNCHANGED <<backend, cache, res, requests, served>>

\* res.json() rejects: the body is no JSON text.
JsonReject(r) ==
    /\ pc[r] = "awaitJson"
    /\ ~res[r][1].json
    /\ pc' = [pc EXCEPT ![r] = "failed"]
    /\ err' = [err EXCEPT ![r] = "SyntaxError"]
    /\ UNCHANGED <<backend, cache, res, data, out, requests, served>>

\* The backend's data changes (registrations and users come and go).
BackendChange ==
    /\ \E v \in BackendVersions : v # backend /\ backend' = v
    /\ UNCHANGED <<cache, pc, res, data, out, err, requests, served>>

Next ==
    \E r \in Renders :
        Fetch(r) \/ FetchResolve(r) \/ FetchReject(r) \/ JsonResolve(r) \/ JsonReject(r)

NextConc == Next \/ BackendChange

Spec == Init /\ [][Next]_vars

SpecConc == InitConc /\ [][NextConc]_vars

\* Some call of Page that can take a step does: the runtime runs every call,
\* and every pending fetch and res.json() settles.
SpecFair == SpecConc /\ WF_vars(Next)

\* ----------------------------------------------------------------- claims
Records(r) == data[r][1].hackathon_registration
CardsOf(r) == out[r][1].cards
Teams == SeqsUpTo(MemberPool, MaxMembers)

\* The members string s is the serialization of a sequence of TeamMember.
IsTeamString(s) == \E ms \in Teams : s = StringifyMembers(ms)

\* JSON.parse accepts the members string s.
Deserializes(s) == JSONParse(s).ok

\* C1: a response with a non-success status ends the render in the failed
\* state with the error 'Failed to fetch admin data'; the body is not
\* parsed and nothing is output.
C1_NonOkFails ==
    \A r \in Renders :
        (res[r] # <<>> /\ res[r][1].status \notin 200..299) =>
            /\ pc[r] = "failed"
            /\ err[r] = "Failed to fetch admin data"
            /\ data[r] = <<>>
            /\ out[r] = <<>>

\* A 404 whose body is a non-empty listing has been received.
C1_Witness ==
    \E r \in Renders :
        /\ res[r] # <<>> /\ res[r][1].status = 404 /\ res[r][1].json
        /\ res[r][1].body.hackathon_registration # <<>>
        /\ pc[r] = "failed"

\* C2: a successful response whose N records all hold the serialization of
\* a TeamMember sequence renders exactly N cards; the empty listing with
\* totalUsers 0 renders the header 'Admin Dashboard (0)' and no card.
C2_OneCardPerRecord ==
    \A r \in Renders :
        (data[r] # <<>> /\ \A i \in 1..Len(Records(r)) : IsTeamString(Records(r)[i].members)) =>
            /\ pc[r] = "rendered"
            /\ out[r] # <<>>
            /\ Len(CardsOf(r)) = Len(Records(r))
            /\ data[r][1] = ApiResponse(<<>>, 0) =>
                  out[r][1] = [header |-> "Admin Dashboard (0)", cards |-> <<>>]

\* A listing of MaxRecords records, two of them with the same id, is rendered.
C2_Witness ==
    \E r \in Renders :
        /\ pc[r] = "rendered" /\ Len(Records(r)) >= 2
        /\ Records(r)[1].id = Records(r)[2].id
        /\ Len(CardsOf(r)) = Len(Records(r))

\* C3 as stated: the key of a card is the id of its record, and no two
\* cards of an output carry the same key.
C3_UniqueKeys ==
    \A r \in Renders :
        pc[r] = "rendered" =>
            /\ \A i \in 1..Len(CardsOf(r)) : CardsOf(r)[i].key = Records(r)[i].id
            /\ \A i, j \in 1..Len(CardsOf(r)) : i # j => CardsOf(r)[i].key # CardsOf(r)[j].key

\* C3 amended: the key of a card is the id of the record it was built from;
\* two cards carry the same key exactly when their records carry the same id.
C3_KeyIsRecordId ==
    \A r \in Renders :
        pc[r] = "rendered" =>
            /\ Len(CardsOf(r)) = Len(Records(r))
            /\ \A i \in 1..Len(CardsOf(r)) : CardsOf(r)[i].key = Records(r)[i].id
            /\ \A i, j \in 1..Len(CardsOf(r)) :
                  (CardsOf(r)[i].key = CardsOf(r)[j].key) <=> (Records(r)[i].id = Records(r)[j].id)

\* A listing whose first record has id 2 and whose second has id 1 is rendered.
C3_Witness ==
    \E r \in Renders :
        /\ pc[r] = "rendered" /\ Len(Records(r)) >= 2
        /\ Records(r)[1].id = 2 /\ Records(r)[2].id = 1
        /\ CardsOf(r)[1].key = 2 /\ CardsOf(r)[2].key = 1

MemberLine(m) == m.name \o " (" \o m.designation \o ") " \o EnDash \o " " \o m.email

\* C4: the card of a record whose members string is the serialization of M
\* TeamMember entries lists exactly M entries, in that order, the i-th being
\* '{name} ({designation}) - {email}' of the i-th member and nothing else.
C4_MemberEntries ==
    \A r \in Renders :
        pc[r] = "rendered" =>
            \A i \in 1..Len(Records(r)) : \A ms \in Teams :
                Records(r)[i].members = StringifyMembers(ms) =>
                    /\ Len(CardsOf(r)[i].members) = Len(ms)
                    /\ \A k \in 1..Len(ms) : CardsOf(r)[i].members[k].text = MemberLine(ms[k])

\* A card of the team Ravi, Asha is rendered, in that order.
C4_Witness ==
    \E r \in Renders :
        /\ pc[r] = "rendered" /\ Len(Records(r)) = 1
        /\ Records(r)[1].members = StringifyMembers(<<Ravi, Asha>>)
        /\ CardsOf(r)[1].members[1].text = "Ravi (Developer) - ravi@example.com"
        /\ CardsOf(r)[1].members[2].text = "Asha (Lead) - asha@example.com"

\* C5: the header of a successful render shows the totalUsers of the
\* payload, whatever the number of records.
C5_HeaderShowsTotalUsers ==
    \A r \in Renders :
        pc[r] = "rendered" =>
            out[r][1].header = "Admin Dashboard (" \o ToString(res[r][1].body.totalUsers) \o ")"

\* An output whose header count differs from its number of cards.
C5_Witness ==
    \E r \in Renders :
        /\ pc[r] = "rendered"
        /\ res[r][1].body.totalUsers = 1 /\ Len(CardsOf(r)) = 2
        /\ out[r][1].header = "Admin Dashboard (1)"

LinkLabels ==
    [ppt_file |-> "PPT", bonafide_file |-> "Bonafide",
     github_repo_link |-> "GitHub", demo_video_url |-> "Demo"]

\* C6: in every card each non-empty link field yields exactly one link of
\* its own label, whose target is that field's value.
C6_LinkTargets ==
    \A r \in Renders :
        pc[r] = "rendered" =>
            \A i \in 1..Len(Records(r)) : \A f \in LinkFields :
                Records(r)[i][f] # "" =>
                    LET hits == {k \in 1..Len(CardsOf(r)[i].links) :
                                    CardsOf(r)[i].links[k].label = LinkLabels[f]} IN
                    /\ Cardinality(hits) = 1
                    /\ \A k \in hits : CardsOf(r)[i].links[k].href = Records(r)[i][f]

\* A card whose four link fields are non-empty, PPT and Bonafide differing.
C6_Witness ==
    \E r \in Renders :
        /\ pc[r] = "rendered" /\ Len(Records(r)) = 1
        /\ \A f \in LinkFields : Records(r)[1][f] # ""
        /\ Records(r)[1].ppt_file # Records(r)[1].bonafide_file
        /\ Records(r)[1].github_repo_link # Records(r)[1].demo_video_url
        /\ Len(CardsOf(r)[1].links) = 4

\* C7: the i-th card is the card of the i-th record of the payload: nothing
\* is sorted, filtered, de-duplicated or paged.
C7_BackendOrder ==
    \A r \in Renders :
        pc[r] = "rendered" =>
            /\ Len(CardsOf(r)) = Len(res[r][1].body.hackathon_registration)
            /\ \A i \in 1..Len(CardsOf(r)) :
                  CardsOf(r)[i] = Card(res[r][1].body.hackathon_registration[i]).val[1]

\* Two different records with ids 2, 1 in that order are rendered.
C7_Witness ==
    \E r \in Renders :
        /\ pc[r] = "rendered" /\ Len(CardsOf(r)) = 2
        /\ res[r][1].body.hackathon_registration[1].id = 2
        /\ res[r][1].body.hackathon_registration[2].id = 1
        /\ res[r][1].body.hackathon_registration[1].members
              # res[r][1].body.hackathon_registration[2].members

\* C8: each output is the dashboard of the backend state at the moment its
\* own fetch resolved, and every render past its fetch call has sent its own
\* request.
C8_OwnSnapshot ==
    \A r \in Renders :
        /\ pc[r] = "rendered" => out[r] = Dashboard(served[r][1]).val
        /\ data[r] # <<>> => data[r][1] = served[r][1]
        /\ requests[r] = (IF pc[r] = "start" THEN 0 ELSE 1)

\* Two renders have ended with different outputs, neither the dashboard of
\* the present backend state.
C8_Witness ==
    \E r1, r2 \in Renders :
        /\ pc[r1] = "rendered" /\ pc[r2] = "rendered"
        /\ out[r1] # out[r2]
        /\ served[r1][1] # backend /\ served[r2][1] # backend
        /\ requests[r1] = 1 /\ requests[r2] = 1

\* The first record whose members string JSON.parse rejects, 0 when none.
RECURSIVE FirstRejected(_, _)
FirstRejected(rs, i) ==
    IF i > Len(rs) THEN 0
    ELSE IF ~Deserializes(rs[i].members) THEN i ELSE FirstRejected(rs, i + 1)

PageEdges ==
    { <<"start", "awaitFetch">>, <<"awaitFetch", "failed">>, <<"awaitFetch", "awaitJson">>,
      <<"awaitJson", "failed">>, <<"awaitJson", "rendered">> }

\* C10: a render sends exactly one request, before any output, goes
\* fetch -> (fail | render) once without a retry, and ends failed or rendered.
C10_OneRequestThenEnd ==
    /\ [](\A r \in Renders :
            /\ requests[r] = (IF pc[r] = "start" THEN 0 ELSE 1)
            /\ out[r] # <<>> => pc[r] = "rendered")
    /\ [][\A r \in Renders :
            /\ pc'[r] # pc[r] => <<pc[r], pc'[r]>> \in PageEdges
            /\ requests'[r] # requests[r] => pc[r] = "start"]_vars
    /\ <>(\A r \in Renders : pc[r] \in {"failed", "rendered"})

\* One render has failed on a 500 and another has rendered, one request each.
C10_Witness ==
    \E r1, r2 \in Renders :
        /\ pc[r1] = "failed" /\ res[r1] # <<>> /\ res[r1][1].status = 500
        /\ pc[r2] = "rendered"
        /\ requests[r1] = 1 /\ requests[r2] = 1
====
